---- MODULE Spec2Model ----
(***************************************************************************)
(* Cache-aside forecast read path, job ledger, claim-based job runner and  *)
(* cancellation handler of the API gateway (src/unnamed/part_005, second   *)
(* program of the file, lines 409-1175), over the live_forecasts table of  *)
(* src/unnamed/part_000.                                                   *)
(*                                                                         *)
(* Several gateway processes ("instances") share the database; each runs   *)
(* one jobRunner loop.  Every SQL statement is one atomic step; the claim  *)
(* statement is split at its row lock (sub-select FOR UPDATE SKIP LOCKED,  *)
(* then the UPDATE) so that two claims and a cancel can interleave the way *)
(* row locks allow.  At most one forecast request and one cancel request   *)
(* are between their two statements at a time; a request whose process     *)
(* dies between its statements is one whose second statement never runs.   *)
(*                                                                         *)
(* The actions are the same in every specification below; a specification  *)
(* chooses the inputs the environment offers them (request parameters,     *)
(* generator answers, database faults, instances).                         *)
(*                                                                         *)
(* The sales preprocessor (src/preprocessors/main.go) is a program of its  *)
(* own over the etl_job_status and hourly_sales_by_category tables; its    *)
(* actions and its specification follow those of the gateway, and each     *)
(* program's actions leave the other's variables alone.                    *)
(***************************************************************************)
EXTENDS Integers, Sequences, FiniteSets, TLC

\* ---- bounds of the model ------------------------------------------------
MaxJobs == 2
MaxDate == 2
MaxPeriod == 2
MaxBatch == 2

Instances == {"i1", "i2"}
Dates == 1..MaxDate
Values == {"v1", "v2"}
NoInstance == "-"

\* ---- strconv.Atoi on the period parameter --------------------------------
DigitChars == <<"0", "1", "2", "3", "4", "5", "6", "7", "8", "9">>

IsDigit(c) == \E d \in 1..Len(DigitChars) : DigitChars[d] = c

DigitValue(c) == (CHOOSE d \in 1..Len(DigitChars) : DigitChars[d] = c) - 1

RECURSIVE ParseDigits(_, _)
ParseDigits(s, acc) ==
    IF s = <<>> THEN acc
    ELSE ParseDigits(Tail(s), acc * Len(DigitChars) + DigitValue(Head(s)))

\* Atoi: optional sign, then one or more decimal digits; anything else is an error.
Atoi(s) ==
    LET signed == s # <<>> /\ Head(s) \in {"-", "+"}
        body == IF signed THEN Tail(s) ELSE s
    IN  IF body = <<>> \/ \E k \in 1..Len(body) : ~IsDigit(body[k])
        THEN [err |-> TRUE, val |-> 0]
        ELSE [err |-> FALSE,
              val |-> IF signed /\ Head(s) = "-"
                      THEN 0 - ParseDigits(body, 0)
                      ELSE ParseDigits(body, 0)]

\* The period strings a client sends: empty, non-numeric, zero, negative, 1..MaxPeriod.
PeriodInputs ==
    {<<>>, <<"a">>, <<"0">>, <<"-", "1">>} \cup {<<DigitChars[n + 1]>> : n \in 1..MaxPeriod}

VARIABLES
    jobs,            \* async_forecast_jobs, in created_at order; job_id = position
    live_forecasts,  \* the cache table: a set of rows
    tick,            \* per instance: job whose row its claim statement holds locked, 0 if none
    alive,           \* per instance: the process is running
    reading,         \* the getForecastHandler between its SELECT and its INSERT
    cancelling,      \* job id of the cancelJobHandler between its UPDATE and its SELECT, 0 if none
    proc,            \* per job: the processJob goroutine spawned for it, and what it did
    response,        \* the HTTP response written by the step just taken, if any
    \* the sales preprocessor (src/preprocessors/main.go) and its two tables
    etl_job_status,            \* per file: the status of its row, "none" if it has no row
    hourly_sales_by_category,  \* the committed rows, each marked with the file and run that loaded it
    etl,                       \* the run of processAllSalesFiles that is under way, and the runs so far
    worker                     \* per file: the goroutine the run started for it

gatewayVars == <<jobs, live_forecasts, tick, alive, reading, cancelling, proc, response>>

etlVars == <<etl_job_status, hourly_sales_by_category, etl, worker>>

vars == <<jobs, live_forecasts, tick, alive, reading, cancelling, proc, response,
          etl_job_status, hourly_sales_by_category, etl, worker>>

JobIds == 1..Len(jobs)

\* ---- rows and responses --------------------------------------------------
Row(c, d, g, v) ==
    [category_id |-> c, forecast_date |-> d, granularity |-> g, predicted_sales |-> v]

Triple(r) == <<r.category_id, r.forecast_date, r.granularity>>

Response(op, code, job, forecast, status, msg) ==
    [op |-> op, code |-> code, job_id |-> job, forecast |-> forecast,
     status |-> status, error_message |-> msg]

NoResponse == Response("none", 0, 0, <<>>, "", "")

NotReading == [pc |-> "idle", category_id |-> "", horizon |-> "", period |-> 0, seen |-> 0]

\* pc: where the goroutine is; owner: the instance running it; claims: how
\* many claim statements returned the job; calls: generator invocations;
\* outcome: how the generator call and the batch transaction ended;
\* present: right after the transaction the table held every point of the
\* batch; changed: the transaction changed the table.
NoProc == [pc |-> "none", owner |-> NoInstance, claims |-> 0, calls |-> 0,
           outcome |-> "-", present |-> FALSE, changed |-> FALSE]

\* The sales files of the bucket directory.
Files == {"f1", "f2", "f3"}

\* No run of the preprocessor under way.  run: runs started so far;
\* err: the status query of the run failed; jobStatuses: what it returned;
\* filesToProcess: the files the run selected.
NoRun == [pc |-> "idle", run |-> 0, err |-> FALSE,
          jobStatuses |-> [f \in Files |-> "none"], filesToProcess |-> {}]

\* pc: where the goroutine is; tx: the rows its open transaction has
\* inserted; fault: the error processSingleSalesFile returned, "-" if none;
\* execs: the inserts of this attempt that succeeded.
NoWorker == [pc |-> "none", tx |-> {}, fault |-> "-", execs |-> 0]

\* The cache as the training pipeline left it: a point of another category;
\* no sales file processed yet.
Init ==
    /\ jobs = <<>>
    /\ live_forecasts = {Row("CAT_02", 1, "daily", "v1")}
    /\ tick = [i \in Instances |-> 0]
    /\ alive = [i \in Instances |-> TRUE]
    /\ reading = NotReading
    /\ cancelling = 0
    /\ proc = <<>>
    /\ response = NoResponse
    /\ etl_job_status = [f \in Files |-> "none"]
    /\ hourly_sales_by_category = {}
    /\ etl = NoRun
    /\ worker = [f \in Files |-> NoWorker]

\* ---- getForecastHandler --------------------------------------------------
\* SELECT ... WHERE category_id = $1 AND granularity = $2
CacheRows(c, g) == {r \in live_forecasts : r.category_id = c /\ r.granularity = g}

\* ORDER BY forecast_date
RECURSIVE OrderByDateDesc(_)
OrderByDateDesc(S) ==
    IF S = {} THEN <<>>
    ELSE LET first == CHOOSE r \in S : \A q \in S : r.forecast_date >= q.forecast_date
         IN  <<first>> \o OrderByDateDesc(S \ {first})

RECURSIVE OrderByDate(_)
OrderByDate(S) ==
    IF S = {} THEN <<>>
    ELSE LET first == CHOOSE r \in S : \A q \in S : r.forecast_date <= q.forecast_date
         IN  <<first>> \o OrderByDate(S \ {first})

\* LIMIT $3
Limit(seq, n) == SubSeq(seq, 1, IF Len(seq) < n THEN Len(seq) ELSE n)

\* The ForecastPoint list the handler scans out of the query.
QueryForecasts(c, g, n) ==
    LET rows == Limit(OrderByDate(CacheRows(c, g)), n)
    IN  [k \in 1..Len(rows) |->
            [forecast_date |-> rows[k].forecast_date,
             predicted_sales |-> rows[k].predicted_sales]]

\* a handler that takes any forecast_horizon
ValidHorizonAny(h) == TRUE

ValidHorizon(h) == h = "daily" \/ h = "monthly" \/ h = "yearly"

\* request.count of the job the handler enqueues
ShortfallWholePeriod(period, seen) == period

\* the difference taken the other way round
ShortfallNegated(period, seen) == seen - period

Shortfall(period, seen) == period - seen

\* Validation, cache read, and the answer on a full hit; on a shortfall the
\* handler goes on to the INSERT, a second statement.
GetForecast(c, h, ps) ==
    /\ reading.pc = "idle"
    /\ LET p == Atoi(ps)
       IN  IF p.err \/ p.val <= 0
           THEN /\ response' = Response("getForecast", 400, 0, <<>>, "period", "")
                /\ UNCHANGED reading
           ELSE IF ~ValidHorizon(h)
           THEN /\ response' = Response("getForecast", 400, 0, <<>>, "horizon", "")
                /\ UNCHANGED reading
           ELSE LET forecasts == QueryForecasts(c, h, p.val)
                IN  IF Len(forecasts) >= p.val
                    THEN /\ response' = Response("getForecast", 200, 0, forecasts, "", "")
                         /\ UNCHANGED reading
                    ELSE /\ reading' = [pc |-> "insert", category_id |-> c, horizon |-> h,
                                        period |-> p.val, seen |-> Len(forecasts)]
                         /\ response' = NoResponse
    /\ UNCHANGED <<jobs, live_forecasts, tick, alive, cancelling, proc>>
    /\ UNCHANGED etlVars

\* a job row whose count is taken from the table as it is at the INSERT
NewJobFresh(c, h, period, seen) ==
    [category_id |-> c, granularity |-> h,
     count |-> Shortfall(period, Len(QueryForecasts(c, h, period))),
     status |-> "PENDING", error_message |-> ""]

\* The job row of the INSERT: request_params and status 'PENDING'.
NewJob(c, h, period, seen) ==
    [category_id |-> c, granularity |-> h, count |-> Shortfall(period, seen),
     status |-> "PENDING", error_message |-> ""]

\* a handler that answers with the job already queued or running for the key
InsertJobDedup ==
    /\ reading.pc = "insert"
    /\ \E j \in JobIds :
            /\ jobs[j].category_id = reading.category_id
            /\ jobs[j].granularity = reading.horizon
            /\ jobs[j].status \in {"PENDING", "RUNNING"}
            /\ response' = Response("getForecast", 202, j, <<>>, "", "")
    /\ reading' = NotReading
    /\ UNCHANGED <<jobs, proc, live_forecasts, tick, alive, cancelling>>
    /\ UNCHANGED etlVars

\* INSERT INTO async_forecast_jobs ..., then 202 with the job id.
InsertJob ==
    /\ reading.pc = "insert"
    /\ Len(jobs) < MaxJobs
    /\ jobs' = Append(jobs, NewJob(reading.category_id, reading.horizon,
                                   reading.period, reading.seen))
    /\ proc' = Append(proc, NoProc)
    /\ response' = Response("getForecast", 202, Len(jobs) + 1, <<>>, "", "")
    /\ reading' = NotReading
    /\ UNCHANGED <<live_forecasts, tick, alive, cancelling>>
    /\ UNCHANGED etlVars

\* ---- getJobStatusHandler ---------------------------------------------------
\* a status answer that drops the error message
GetJobStatusNoMessage(id) ==
    /\ response' = IF id \in JobIds
                   THEN Response("getJobStatus", 200, id, <<>>, jobs[id].status, "")
                   ELSE Response("getJobStatus", 404, id, <<>>, "", "")
    /\ UNCHANGED <<jobs, live_forecasts, tick, alive, reading, cancelling, proc>>
    /\ UNCHANGED etlVars

\* SELECT ... WHERE job_id = $1: 404 on no row, else the row's status and message.
GetJobStatus(id) ==
    /\ response' = IF id \in JobIds
                   THEN Response("getJobStatus", 200, id, <<>>, jobs[id].status,
                                 jobs[id].error_message)
                   ELSE Response("getJobStatus", 404, id, <<>>, "", "")
    /\ UNCHANGED <<jobs, live_forecasts, tick, alive, reading, cancelling, proc>>
    /\ UNCHANGED etlVars

\* ---- listJobsHandler -------------------------------------------------------
\* The limit query parameter: absent, or present with a string value.
LimitInputs ==
    {[present |-> FALSE, value |-> <<>>]} \cup
    {[present |-> TRUE, value |-> s] :
        s \in {<<>>, <<"a">>, <<"0">>, <<"1">>, <<"2">>, <<"-", "1">>, <<"1", "0", "1">>}}

\* c.DefaultQuery("limit", "20")
DefaultLimit == <<"2", "0">>

DefaultQuery(q) == IF q.present THEN q.value ELSE DefaultLimit

\* if limit > 100 { limit = 100 }
MaxPageSize == 100

PageLimit(q) ==
    LET limit == Atoi(DefaultQuery(q)).val
    IN  IF limit > MaxPageSize THEN MaxPageSize ELSE limit

\* ORDER BY created_at DESC LIMIT $1, each row scanned into a JobStatusResponse
RecentJobs(n) ==
    [k \in 1..(IF n < Len(jobs) THEN n ELSE Len(jobs)) |->
        [job_id |-> Len(jobs) + 1 - k,
         status |-> jobs[Len(jobs) + 1 - k].status,
         error_message |-> jobs[Len(jobs) + 1 - k].error_message]]

ListResponse(code, list) ==
    [op |-> "listJobs", code |-> code, job_id |-> 0, forecast |-> <<>>,
     status |-> "", error_message |-> "", jobs |-> list]

\* The limit goes to the database as it is: PostgreSQL rejects a negative
\* LIMIT ("LIMIT must not be negative"), db.Query returns the error and the
\* handler answers 500.
ListJobs(q) ==
    /\ response' = IF PageLimit(q) < 0
                   THEN ListResponse(500, <<>>)
                   ELSE ListResponse(200, RecentJobs(PageLimit(q)))
    /\ UNCHANGED <<jobs, live_forecasts, tick, alive, reading, cancelling, proc>>
    /\ UNCHANGED etlVars

\* ---- jobRunner: the claim statement --------------------------------------
\* A row is locked while an instance's claim statement holds it.
RowLocked(j) == \E w \in Instances : tick[w] = j

\* WHERE status = 'PENDING' ... FOR UPDATE SKIP LOCKED
ClaimableNoLock(j) == jobs[j].status = "PENDING"

ClaimableAnyStatus(j) == ~RowLocked(j)

\* a runner that picks failed jobs up again
ClaimableFailedToo(j) == jobs[j].status \in {"PENDING", "FAILED"} /\ ~RowLocked(j)

\* a runner that takes over the jobs of dead goroutines
ClaimableStale(j) ==
    /\ \/ jobs[j].status = "PENDING"
       \/ jobs[j].status = "RUNNING" /\ proc[j].pc = "crashed"
    /\ ~RowLocked(j)

\* a claim that finds no row eligible
ClaimableNever(j) == FALSE

\* a runner that also selects CANCELLED rows
ClaimableCancelledToo(j) == jobs[j].status \in {"PENDING", "CANCELLED"} /\ ~RowLocked(j)

\* a runner that also selects RUNNING rows
ClaimableRunning(j) == jobs[j].status \in {"PENDING", "RUNNING"} /\ ~RowLocked(j)

Claimable(j) == jobs[j].status = "PENDING" /\ ~RowLocked(j)

\* ORDER BY created_at DESC LIMIT 1
LastCreated(S) == CHOOSE j \in S : \A k \in S : j >= k

\* ORDER BY created_at LIMIT 1
FirstCreated(S) == CHOOSE j \in S : \A k \in S : j <= k

\* a runner that waits for the job it started before it claims the next
ClaimSelectWhenIdle(i) ==
    /\ alive[i] /\ tick[i] = 0
    /\ \A j \in JobIds : proc[j].owner # i
    /\ LET cands == {j \in JobIds : Claimable(j)}
       IN  IF cands = {}
           THEN UNCHANGED tick
           ELSE tick' = [tick EXCEPT ![i] = FirstCreated(cands)]
    /\ response' = NoResponse
    /\ UNCHANGED <<jobs, live_forecasts, alive, reading, cancelling, proc>>
    /\ UNCHANGED etlVars

\* The sub-select: lock the first claimable row, or find none (sql.ErrNoRows:
\* the tick ends with nothing done).
ClaimSelect(i) ==
    /\ alive[i] /\ tick[i] = 0
    /\ LET cands == {j \in JobIds : Claimable(j)}
       IN  IF cands = {}
           THEN UNCHANGED tick
           ELSE tick' = [tick EXCEPT ![i] = FirstCreated(cands)]
    /\ response' = NoResponse
    /\ UNCHANGED <<jobs, live_forecasts, alive, reading, cancelling, proc>>
    /\ UNCHANGED etlVars

\* a claim without LIMIT 1: every PENDING row is set RUNNING and started
ClaimUpdateEveryPending(i) ==
    /\ alive[i] /\ tick[i] # 0
    /\ jobs' = [j \in JobIds |->
                    IF jobs[j].status = "PENDING"
                    THEN [jobs[j] EXCEPT !.status = "RUNNING"] ELSE jobs[j]]
    /\ proc' = [j \in JobIds |->
                    IF jobs[j].status = "PENDING"
                    THEN [proc[j] EXCEPT !.pc = "post", !.owner = i, !.claims = @ + 1]
                    ELSE proc[j]]
    /\ tick' = [tick EXCEPT ![i] = 0]
    /\ response' = NoResponse
    /\ UNCHANGED <<live_forecasts, alive, reading, cancelling>>
    /\ UNCHANGED etlVars

\* SET status = 'RUNNING' on the locked row, RETURNING it; go processJob(...).
ClaimUpdate(i) ==
    /\ alive[i] /\ tick[i] # 0
    /\ jobs' = [jobs EXCEPT ![tick[i]].status = "RUNNING"]
    /\ proc' = [proc EXCEPT ![tick[i]].pc = "post", ![tick[i]].owner = i,
                            ![tick[i]].claims = @ + 1]
    /\ tick' = [tick EXCEPT ![i] = 0]
    /\ response' = NoResponse
    /\ UNCHANGED <<live_forecasts, alive, reading, cancelling>>
    /\ UNCHANGED etlVars

\* The claim statement fails with a database error: the tick logs it and goes
\* on to the next tick; the row lock the failed statement took is released.
ClaimError(i) ==
    /\ alive[i] /\ tick[i] # 0
    /\ tick' = [tick EXCEPT ![i] = 0]
    /\ response' = NoResponse
    /\ UNCHANGED <<jobs, live_forecasts, alive, reading, cancelling, proc>>
    /\ UNCHANGED etlVars

\* The claim statement is executed and committed by the server, and the
\* connection breaks before the returned row reaches QueryRow().Scan: the tick
\* sees a database error, logs it and goes on; no processJob is started.
ClaimLost(i) ==
    /\ alive[i] /\ tick[i] # 0
    /\ jobs' = [jobs EXCEPT ![tick[i]].status = "RUNNING"]
    /\ tick' = [tick EXCEPT ![i] = 0]
    /\ response' = NoResponse
    /\ UNCHANGED <<live_forecasts, alive, reading, cancelling, proc>>
    /\ UNCHANGED etlVars

\* ---- processJob ----------------------------------------------------------
\* A result point of the generator's JSON answer, for the job's category and
\* granularity. shape "unconvertible": a field holds a value database/sql
\* cannot convert to a driver value (a nested JSON object), so stmt.Exec of
\* that row returns an error.
Points == [forecast_date : Dates, predicted_sales : Values,
           shape : {"ok", "unconvertible"}]

Batches == UNION {[1..n -> Points] : n \in 0..MaxBatch}

GeneratorFailures == {"transport", "non200", "undecodable"}

MergeFaults == {"none", "begin", "exec", "commit"}

PointRow(j, p) ==
    Row(jobs[j].category_id, p.forecast_date, jobs[j].granularity, p.predicted_sales)

\* The rows buffered by the per-row stmt.Exec calls; a row whose Exec returns
\* an error is not buffered, and the error is discarded.
RECURSIVE CopyRows(_, _)
CopyRows(j, batch) ==
    IF batch = <<>> THEN <<>>
    ELSE (IF Head(batch).shape = "ok" THEN <<PointRow(j, Head(batch))>> ELSE <<>>)
            \o CopyRows(j, Tail(batch))

RowError(batch) == \E k \in 1..Len(batch) : batch[k].shape # "ok"

\* fcst["model_version_id"].(float64): the one-value type assertion panics on
\* a point that has no model_version_id (or a non-numeric one); the panic in
\* the goroutine ends the process.
AssertionPanics(batch) == \E k \in 1..Len(batch) : batch[k].shape = "no model_version_id"

\* unique (category_id, forecast_date, granularity) of live_forecasts,
\* checked on the COPY's rows against the table and against each other.
NoUniqueConstraint(rows) == FALSE

UniqueViolation(rows) ==
    \/ \E k \in 1..Len(rows) : \E r \in live_forecasts : Triple(r) = Triple(rows[k])
    \/ \E k, l \in 1..Len(rows) : k < l /\ Triple(rows[k]) = Triple(rows[l])

\* a transaction whose rows never reach the table
AfterCopyNothing(rows, fault) == live_forecasts

\* a merge that clears the table before it loads the batch
AfterCopyReplaceAll(rows, fault) ==
    IF fault = "commit" THEN live_forecasts
    ELSE {rows[k] : k \in 1..Len(rows)}

\* The table after the transaction: the COPY adds its rows when it commits.
AfterCopy(rows, fault) ==
    IF fault = "commit" THEN live_forecasts
    ELSE live_forecasts \cup {rows[k] : k \in 1..Len(rows)}

\* What an observer of the table sees of the batch after the transaction.
Present(j, batch, after) == \A k \in 1..Len(batch) : PointRow(j, batch[k]) \in after

\* The process dies: its claim statement and goroutines with it.
CrashEffect(i) ==
    /\ alive' = [alive EXCEPT ![i] = FALSE]
    /\ tick' = [tick EXCEPT ![i] = 0]

Crashed(i, p) ==
    IF p.owner = i /\ p.pc \in {"post", "waiting", "finalize"}
    THEN [p EXCEPT !.pc = "crashed", !.owner = NoInstance]
    ELSE p

\* UPDATE ... SET status = 'FAILED', error_message = $1 WHERE job_id = $2
FailJobNoMessage(j, msg) == [jobs EXCEPT ![j].status = "FAILED"]

FailJob(j, msg) == [jobs EXCEPT ![j].status = "FAILED", ![j].error_message = msg]

\* failure branches that record nothing
FailureMessageEmpty(kind) == ""

\* errMsg of the failure branches
FailureMessage(kind) ==
    CASE kind = "transport" -> "Post: connection refused"
      [] kind = "non200" -> "Failed to execute forecast in Python service."
      [] OTHER -> "Failed to decode delta forecast response"

\* The answer of http.Post fails: transport error, or a status other than 200,
\* or a body that does not decode as a list of objects.
GeneratorFails(j, kind) ==
    /\ j \in JobIds /\ proc[j].pc = "post" /\ alive[proc[j].owner]
    /\ jobs' = FailJob(j, FailureMessage(kind))
    /\ proc' = [proc EXCEPT ![j].pc = "done", ![j].owner = NoInstance,
                            ![j].calls = @ + 1, ![j].outcome = kind]
    /\ response' = NoResponse
    /\ UNCHANGED <<live_forecasts, tick, alive, reading, cancelling>>
    /\ UNCHANGED etlVars

\* The generator accepts the request and never answers: http.Post goes through
\* http.DefaultClient, whose Timeout is zero (no timeout), so the call does not
\* return and the goroutine stays blocked in it.
GeneratorHangs(j) ==
    /\ j \in JobIds /\ proc[j].pc = "post" /\ alive[proc[j].owner]
    /\ proc' = [proc EXCEPT ![j].pc = "waiting", ![j].calls = @ + 1]
    /\ response' = NoResponse
    /\ UNCHANGED <<jobs, live_forecasts, tick, alive, reading, cancelling>>
    /\ UNCHANGED etlVars

\* The generator answers 200 with a decodable batch: db.Begin, tx.Prepare of the
\* COPY, one stmt.Exec per point, the closing stmt.Exec, tx.Commit.
Merge(j, batch, fault) ==
    /\ j \in JobIds /\ proc[j].pc = "post" /\ alive[proc[j].owner]
    /\ response' = NoResponse
    /\ UNCHANGED etlVars
    /\ LET rows == CopyRows(j, batch)
           ran == [proc[j] EXCEPT !.calls = @ + 1]
       IN  IF fault = "begin" \/ AssertionPanics(batch)
           THEN \* tx is nil and its error is dropped: tx.Prepare panics; or the
                \* type assertion of a row panics before the COPY is closed
                /\ CrashEffect(proc[j].owner)
                /\ proc' = [k \in JobIds |->
                              Crashed(proc[j].owner,
                                      IF k = j
                                      THEN [ran EXCEPT !.outcome = "panic",
                                                       !.present = Present(j, batch, live_forecasts)]
                                      ELSE proc[k])]
                /\ UNCHANGED <<jobs, live_forecasts, reading, cancelling>>
           ELSE IF fault = "exec" \/ UniqueViolation(rows)
           THEN \* tx.Rollback, then the job is marked FAILED
                /\ jobs' = FailJob(j, "Failed to bulk insert delta forecast")
                /\ proc' = [proc EXCEPT ![j] =
                              [ran EXCEPT !.pc = "done", !.owner = NoInstance,
                                          !.outcome = IF fault = "exec" THEN "exec error"
                                                      ELSE "unique violation",
                                          !.present = Present(j, batch, live_forecasts)]]
                /\ UNCHANGED <<live_forecasts, tick, alive, reading, cancelling>>
           ELSE /\ live_forecasts' = AfterCopy(rows, fault)
                /\ proc' = [proc EXCEPT ![j] =
                              [ran EXCEPT !.pc = "finalize",
                                          !.outcome = IF fault = "commit" THEN "commit failed"
                                                      ELSE IF RowError(batch)
                                                      THEN "committed, rows dropped"
                                                      ELSE "committed",
                                          !.present = Present(j, batch, AfterCopy(rows, fault)),
                                          !.changed = AfterCopy(rows, fault) # live_forecasts]]
                /\ UNCHANGED <<jobs, tick, alive, reading, cancelling>>

\* a finalize step that also stamps a row into the cache
FinalizeWritesCache(j) ==
    /\ j \in JobIds /\ proc[j].pc = "finalize" /\ alive[proc[j].owner]
    /\ jobs' = [jobs EXCEPT ![j].status = "COMPLETED"]
    /\ proc' = [proc EXCEPT ![j].pc = "done", ![j].owner = NoInstance]
    /\ live_forecasts' = live_forecasts \cup
            {Row(jobs[j].category_id, MaxDate, jobs[j].granularity, "v2")}
    /\ response' = NoResponse
    /\ UNCHANGED <<tick, alive, reading, cancelling>>
    /\ UNCHANGED etlVars

\* a goroutine that stops before the COMPLETED update
FinalizeNever(j) == FALSE /\ UNCHANGED vars

\* UPDATE ... SET status = 'COMPLETED' WHERE job_id = $1
Finalize(j) ==
    /\ j \in JobIds /\ proc[j].pc = "finalize" /\ alive[proc[j].owner]
    /\ jobs' = [jobs EXCEPT ![j].status = "COMPLETED"]
    /\ proc' = [proc EXCEPT ![j].pc = "done", ![j].owner = NoInstance]
    /\ response' = NoResponse
    /\ UNCHANGED <<live_forecasts, tick, alive, reading, cancelling>>
    /\ UNCHANGED etlVars

\* ---- cancelJobHandler ----------------------------------------------------
\* WHERE job_id = $1 AND status = 'PENDING'
CancelMatchesAnyStatus(id) == id \in JobIds

\* an UPDATE that matches no row
CancelMatchesNever(id) == FALSE

\* a cancel that also takes RUNNING jobs
CancelMatchesRunning(id) == id \in JobIds /\ jobs[id].status \in {"PENDING", "RUNNING"}

CancelMatches(id) == id \in JobIds /\ jobs[id].status = "PENDING"

\* UPDATE ... SET status = 'CANCELLED' WHERE ...; the statement waits for a row
\* lock held by a claim.
Cancel(id) ==
    /\ cancelling = 0
    /\ ~RowLocked(id)
    /\ IF CancelMatches(id)
       THEN /\ jobs' = [jobs EXCEPT ![id].status = "CANCELLED"]
            /\ response' = Response("cancel", 200, id, <<>>, "", "")
            /\ UNCHANGED cancelling
       ELSE /\ cancelling' = id
            /\ response' = NoResponse
            /\ UNCHANGED jobs
    /\ UNCHANGED <<live_forecasts, tick, alive, reading, proc>>
    /\ UNCHANGED etlVars

\* a lookup that does not tell a missing row from a found one
CancelLookupNoNotFound(dbError) ==
    /\ cancelling # 0
    /\ response' = Response("cancel", 409, cancelling, <<>>,
                            IF cancelling \in JobIds THEN jobs[cancelling].status ELSE "", "")
    /\ cancelling' = 0
    /\ UNCHANGED <<jobs, live_forecasts, tick, alive, reading, proc>>
    /\ UNCHANGED etlVars

\* rowsAffected = 0: SELECT status ... WHERE job_id = $1; 404 on sql.ErrNoRows,
\* 409 with the scanned status otherwise (on any other error the status
\* variable is still empty).
CancelLookup(dbError) ==
    /\ cancelling # 0
    /\ response' = IF dbError THEN Response("cancel", 409, cancelling, <<>>, "", "")
                   ELSE IF cancelling \notin JobIds
                   THEN Response("cancel", 404, cancelling, <<>>, "", "")
                   ELSE Response("cancel", 409, cancelling, <<>>,
                                 jobs[cancelling].status, "")
    /\ cancelling' = 0
    /\ UNCHANGED <<jobs, live_forecasts, tick, alive, reading, proc>>
    /\ UNCHANGED etlVars

\* ---- the process ---------------------------------------------------------
\* The process is killed; nothing it was doing is resumed.
Crash(i) ==
    /\ alive[i]
    /\ CrashEffect(i)
    /\ proc' = [k \in JobIds |-> Crashed(i, proc[k])]
    /\ response' = NoResponse
    /\ UNCHANGED <<jobs, live_forecasts, reading, cancelling>>
    /\ UNCHANGED etlVars

\* ---- specifications ------------------------------------------------------
\* Job ids are fresh random UUIDs (uuid.New()): a client names the id of a job
\* of the ledger, or an id that no job has and none will get.
UnknownJob == MaxJobs + 1

\* Every operation, two instances, crashes and cancels; requests for one key
\* and one period, a generator that fails or answers with at most one point.
OnePoint == [forecast_date |-> 1, predicted_sales |-> "v1", shape |-> "ok"]

Next ==
    \/ \E ps \in {<<"1">>, <<"0">>} : GetForecast("CAT_01", "daily", ps)
    \/ InsertJob
    \/ \E i \in Instances : ClaimSelect(i)
    \/ \E i \in Instances : ClaimUpdate(i)
    \/ \E i \in Instances : ClaimError(i)
    \/ \E j \in 1..MaxJobs : GeneratorFails(j, "transport")
    \/ \E j \in 1..MaxJobs, batch \in {<<>>, <<OnePoint>>} : Merge(j, batch, "none")
    \/ \E j \in 1..MaxJobs : Finalize(j)
    \/ \E id \in JobIds \cup {UnknownJob} : Cancel(id)
    \/ \E dbError \in BOOLEAN : CancelLookup(dbError)
    \/ \E i \in Instances : Crash(i)

Spec == Init /\ [][Next]_vars

\* The same operations with a database that answers the cancel handler's
\* status lookup.
NextCancel ==
    \/ \E ps \in {<<"1">>, <<"0">>} : GetForecast("CAT_01", "daily", ps)
    \/ InsertJob
    \/ \E i \in Instances : ClaimSelect(i)
    \/ \E i \in Instances : ClaimUpdate(i)
    \/ \E i \in Instances : ClaimError(i)
    \/ \E j \in 1..MaxJobs : GeneratorFails(j, "transport")
    \/ \E j \in 1..MaxJobs, batch \in {<<>>, <<OnePoint>>} : Merge(j, batch, "none")
    \/ \E j \in 1..MaxJobs : Finalize(j)
    \/ \E id \in JobIds \cup {UnknownJob} : Cancel(id)
    \/ CancelLookup(FALSE)
    \/ \E i \in Instances : Crash(i)

SpecCancel == Init /\ [][NextCancel]_vars

\* Two instances whose claim statement can fail before or after the server
\* applied it, and that do not crash.
NextClaimFault ==
    \/ \E ps \in {<<"1">>, <<"0">>} : GetForecast("CAT_01", "daily", ps)
    \/ InsertJob
    \/ \E i \in Instances : ClaimSelect(i)
    \/ \E i \in Instances : ClaimUpdate(i)
    \/ \E i \in Instances : ClaimError(i)
    \/ \E i \in Instances : ClaimLost(i)
    \/ \E j \in 1..MaxJobs : GeneratorFails(j, "transport")
    \/ \E j \in 1..MaxJobs, batch \in {<<>>, <<OnePoint>>} : Merge(j, batch, "none")
    \/ \E j \in 1..MaxJobs : Finalize(j)

SpecClaimFault == Init /\ [][NextClaimFault]_vars

\* The job list over every limit parameter and the status query, beside the
\* operations that create jobs and move their status.
NextList ==
    \/ \E ps \in {<<"1">>, <<"0">>} : GetForecast("CAT_01", "daily", ps)
    \/ InsertJob
    \/ \E q \in LimitInputs : ListJobs(q)
    \/ \E id \in 1..MaxJobs : GetJobStatus(id)
    \/ ClaimSelect("i1")
    \/ ClaimUpdate("i1")
    \/ \E j \in 1..MaxJobs : GeneratorFails(j, "transport")
    \/ \E j \in 1..MaxJobs, batch \in {<<>>, <<OnePoint>>} : Merge(j, batch, "none")
    \/ \E j \in 1..MaxJobs : Finalize(j)
    \/ \E id \in JobIds \cup {UnknownJob} : Cancel(id)
    \/ CancelLookup(FALSE)

SpecList == Init /\ [][NextList]_vars

\* The read path over every request parameter and both categories, one
\* instance, a generator that always answers with convertible points, no
\* database fault.
OkBatches == {b \in Batches : ~RowError(b)}

NextRead ==
    \/ \E c \in {"CAT_01", "CAT_02"}, h \in {"daily", "hourly"}, ps \in PeriodInputs :
            GetForecast(c, h, ps)
    \/ InsertJob
    \/ ClaimSelect("i1")
    \/ ClaimUpdate("i1")
    \/ \E j \in 1..MaxJobs, batch \in OkBatches : Merge(j, batch, "none")
    \/ \E j \in 1..MaxJobs : Finalize(j)

SpecRead == Init /\ [][NextRead]_vars

\* processJob over every generator answer and every database fault of the
\* batch transaction, one instance, requests for one key.
NextMerge ==
    \/ \E ps \in {<<"1">>, <<"2">>} : GetForecast("CAT_01", "daily", ps)
    \/ InsertJob
    \/ \E id \in 1..MaxJobs : GetJobStatus(id)
    \/ ClaimSelect("i1")
    \/ ClaimUpdate("i1")
    \/ \E j \in 1..MaxJobs, kind \in GeneratorFailures : GeneratorFails(j, kind)
    \/ \E j \in 1..MaxJobs, batch \in Batches, fault \in MergeFaults : Merge(j, batch, fault)
    \/ \E j \in 1..MaxJobs : Finalize(j)

SpecMerge == Init /\ [][NextMerge]_vars

\* A generator that answers 200 with a body that does not decode, or with
\* points of which one may lack its model_version_id; no database fault.
NoVersionPoint ==
    [forecast_date |-> 2, predicted_sales |-> "v1", shape |-> "no model_version_id"]

DecodeBatches == {<<>>, <<OnePoint>>, <<NoVersionPoint>>, <<OnePoint, NoVersionPoint>>}

NextDecode ==
    \/ \E ps \in {<<"1">>, <<"2">>} : GetForecast("CAT_01", "daily", ps)
    \/ InsertJob
    \/ \E id \in 1..MaxJobs : GetJobStatus(id)
    \/ \E i \in Instances : ClaimSelect(i)
    \/ \E i \in Instances : ClaimUpdate(i)
    \/ \E j \in 1..MaxJobs : GeneratorFails(j, "undecodable")
    \/ \E j \in 1..MaxJobs, batch \in DecodeBatches : Merge(j, batch, "none")
    \/ \E j \in 1..MaxJobs : Finalize(j)

SpecDecode == Init /\ [][NextDecode]_vars

\* One instance that stays up, and a generator that answers, fails or never
\* answers.  The runner's ticker fires every 10 s and a goroutine that can
\* take a step takes it: weak fairness on the claim statement and on the
\* steps of every job's goroutine.
ClaimStep == ClaimSelect("i1") \/ ClaimUpdate("i1")

JobStep(j) ==
    \/ GeneratorFails(j, "non200")
    \/ \E batch \in {<<>>, <<OnePoint>>} : Merge(j, batch, "none")
    \/ Finalize(j)

NextHang ==
    \/ \E ps \in {<<"1">>, <<"2">>} : GetForecast("CAT_01", "daily", ps)
    \/ InsertJob
    \/ \E id \in 1..MaxJobs : GetJobStatus(id)
    \/ \E j \in 1..MaxJobs : GeneratorHangs(j)
    \/ ClaimStep
    \/ \E j \in 1..MaxJobs : JobStep(j)

SpecHang ==
    /\ Init /\ [][NextHang]_vars
    /\ WF_vars(ClaimStep)
    /\ \A j \in 1..MaxJobs : WF_vars(JobStep(j))

\* Two instances that stay up, claim statements that do not fail, a
\* generator that always answers (an error, an undecodable body or a batch)
\* and a batch transaction that commits or fails without a panic; the same
\* weak fairness, for each instance's claim statement and each job's goroutine.
TickStep(i) == ClaimSelect(i) \/ ClaimUpdate(i)

RunStep(j) ==
    \/ \E kind \in GeneratorFailures : GeneratorFails(j, kind)
    \/ \E batch \in {<<>>, <<OnePoint>>}, fault \in {"none", "exec", "commit"} :
            Merge(j, batch, fault)
    \/ Finalize(j)

NextFair ==
    \/ GetForecast("CAT_01", "daily", <<"1">>)
    \/ InsertJob
    \/ \E i \in Instances : TickStep(i)
    \/ \E j \in 1..MaxJobs : RunStep(j)
    \/ \E id \in JobIds \cup {UnknownJob} : Cancel(id)
    \/ CancelLookup(FALSE)

SpecFair ==
    /\ Init /\ [][NextFair]_vars
    /\ \A i \in Instances : WF_vars(TickStep(i))
    /\ \A j \in 1..MaxJobs : WF_vars(RunStep(j))

\* ---- the sales preprocessor (src/preprocessors/main.go) -------------------
\* One run of the binary is one cycle of processAllSalesFiles; runs follow
\* one another and do not overlap.  Every SQL statement of a goroutine is
\* one step; the rows a transaction has inserted are its own until it
\* commits.  A database statement can fail where the specification offers
\* the fault; an insert can fail for any reason, the unique (time,
\* category_id) constraint of the later schema in db-init/init.sql among them.
MaxRuns == 2

\* A record of a sales file: quantity and price as strconv read them (0 for
\* a field that does not parse), the hour of its timestamp (0 for a
\* timestamp that matches neither layout), its category and column count.
SalesRecord(q, p, h, c, n) ==
    [quantity |-> q, price |-> p, hour |-> h, category_id |-> c, cols |-> n]

\* f1 aggregates to two hours, f2 to one hour that f1 also has and a row that
\* is skipped, f3 holds no valid row.
SalesFile(f) ==
    CASE f = "f1" -> <<SalesRecord(1, 2, 1, "CAT_01", 6), SalesRecord(2, 2, 1, "CAT_01", 6),
                       SalesRecord(1, 1, 2, "CAT_01", 6)>>
      [] f = "f2" -> <<SalesRecord(1, 1, 2, "CAT_01", 6), SalesRecord(0, 1, 1, "CAT_01", 6)>>
      [] OTHER    -> <<SalesRecord(1, 1, 0, "CAT_02", 6), SalesRecord(1, 1, 1, "CAT_02", 5)>>

ValidRecord(r) == r.cols >= 6 /\ r.quantity > 0 /\ r.price > 0 /\ r.hour # 0

RECURSIVE TotalSales(_, _)
TotalSales(recs, key) ==
    IF recs = <<>> THEN 0
    ELSE (IF ValidRecord(Head(recs)) /\ <<Head(recs).hour, Head(recs).category_id>> = key
          THEN Head(recs).quantity * Head(recs).price ELSE 0)
         + TotalSales(Tail(recs), key)

RECURSIVE TotalQuantity(_, _)
TotalQuantity(recs, key) ==
    IF recs = <<>> THEN 0
    ELSE (IF ValidRecord(Head(recs)) /\ <<Head(recs).hour, Head(recs).category_id>> = key
          THEN Head(recs).quantity ELSE 0)
         + TotalQuantity(Tail(recs), key)

\* The aggregates map of a file, one row per (hour, category).
Aggregates(f) ==
    LET recs == SalesFile(f)
        keys == {<<recs[k].hour, recs[k].category_id>> :
                    k \in {k \in 1..Len(recs) : ValidRecord(recs[k])}}
    IN  {[time |-> key[1], category_id |-> key[2],
          total_sales |-> TotalSales(recs, key),
          total_quantity |-> TotalQuantity(recs, key)] : key \in keys}

\* A committed row; the table has no column for the file or the run, the
\* model keeps them to tell the loads apart.
Loaded(f, run, row) == [file |-> f, run |-> run, row |-> row]

\* INSERT ... ON CONFLICT (file_name) DO UPDATE SET status
UpdateJobStatus(f, status) == [etl_job_status EXCEPT ![f] = status]

\* a selection that takes every file of the directory
FilesToProcessAll(jobStatuses) == Files

\* !exists || status != "SUCCESS"
FilesToProcess(jobStatuses) == {f \in Files : jobStatuses[f] # "SUCCESS"}

\* processAllSalesFiles up to the start of the goroutines.
ProcessAllSalesFiles(queryFails) ==
    /\ etl.pc = "idle" /\ etl.run < MaxRuns
    /\ IF queryFails
       THEN /\ etl' = [NoRun EXCEPT !.run = etl.run + 1, !.err = TRUE]
            /\ worker' = [f \in Files |-> NoWorker]
       ELSE LET selected == FilesToProcess(etl_job_status)
            IN  /\ etl' = [pc |-> IF selected = {} THEN "idle" ELSE "running",
                           run |-> etl.run + 1, err |-> FALSE,
                           jobStatuses |-> etl_job_status,
                           filesToProcess |-> selected]
                /\ worker' = [f \in Files |->
                                IF f \in selected THEN [NoWorker EXCEPT !.pc = "start"]
                                ELSE NoWorker]
    /\ UNCHANGED <<etl_job_status, hourly_sales_by_category>>
    /\ UNCHANGED gatewayVars

\* The goroutine marks its file PENDING, or returns if that fails.
MarkPending(f, fails) ==
    /\ etl.pc = "running" /\ worker[f].pc = "start"
    /\ IF fails
       THEN /\ worker' = [worker EXCEPT ![f].pc = "done"]
            /\ UNCHANGED etl_job_status
       ELSE /\ worker' = [worker EXCEPT ![f].pc = "process"]
            /\ etl_job_status' = UpdateJobStatus(f, "PENDING")
    /\ UNCHANGED <<hourly_sales_by_category, etl>>
    /\ UNCHANGED gatewayVars

\* A file without a valid row is marked SUCCESS by a statement of its own.
NoValidData(f, fails) ==
    /\ etl.pc = "running" /\ worker[f].pc = "process" /\ Aggregates(f) = {}
    /\ IF fails
       THEN /\ worker' = [worker EXCEPT ![f].pc = "failed", ![f].fault = "status"]
            /\ UNCHANGED etl_job_status
       ELSE /\ worker' = [worker EXCEPT ![f].pc = "done"]
            /\ etl_job_status' = UpdateJobStatus(f, "SUCCESS")
    /\ UNCHANGED <<hourly_sales_by_category, etl>>
    /\ UNCHANGED gatewayVars

BeginFaults == {"none", "open", "begin", "prepare"}

\* The file is read, the transaction begun and the INSERT prepared.
Begin(f, fault) ==
    /\ etl.pc = "running" /\ worker[f].pc = "process"
    /\ fault = "open" \/ Aggregates(f) # {}
    /\ worker' = [worker EXCEPT ![f] =
                    IF fault = "none" THEN [@ EXCEPT !.pc = "exec"]
                    ELSE [@ EXCEPT !.pc = "failed", !.fault = fault]]
    /\ UNCHANGED <<etl_job_status, hourly_sales_by_category, etl>>
    /\ UNCHANGED gatewayVars

\* an INSERT that is committed on its own
ExecAutocommit(f, row, fails) ==
    /\ etl.pc = "running" /\ worker[f].pc = "exec"
    /\ row \in Aggregates(f) \ worker[f].tx
    /\ IF fails
       THEN /\ worker' = [worker EXCEPT ![f].pc = "failed", ![f].fault = "exec", ![f].tx = {}]
            /\ UNCHANGED hourly_sales_by_category
       ELSE /\ worker' = [worker EXCEPT ![f].tx = @ \cup {row}, ![f].execs = @ + 1]
            /\ hourly_sales_by_category' =
                    hourly_sales_by_category \cup {Loaded(f, etl.run, row)}
    /\ UNCHANGED <<etl_job_status, etl>>
    /\ UNCHANGED gatewayVars

\* One INSERT of the loop over the aggregates map, whose order Go does not
\* fix; on an error the deferred function rolls the transaction back.
Exec(f, row, fails) ==
    /\ etl.pc = "running" /\ worker[f].pc = "exec"
    /\ row \in Aggregates(f) \ worker[f].tx
    /\ worker' = [worker EXCEPT ![f] =
                    IF fails THEN [@ EXCEPT !.pc = "failed", !.fault = "exec", !.tx = {}]
                    ELSE [@ EXCEPT !.tx = @ \cup {row}, !.execs = @ + 1]]
    /\ UNCHANGED <<etl_job_status, hourly_sales_by_category, etl>>
    /\ UNCHANGED gatewayVars

\* updateJobStatusInTx after the last INSERT.
StatusInTx(f, fails) ==
    /\ etl.pc = "running" /\ worker[f].pc = "exec"
    /\ worker[f].tx = Aggregates(f)
    /\ worker' = [worker EXCEPT ![f] =
                    IF fails THEN [@ EXCEPT !.pc = "failed", !.fault = "status", !.tx = {}]
                    ELSE [@ EXCEPT !.pc = "commit"]]
    /\ UNCHANGED <<etl_job_status, hourly_sales_by_category, etl>>
    /\ UNCHANGED gatewayVars

\* The deferred tx.Commit: the rows and the SUCCESS status become visible
\* together, or the error is returned and nothing is.
Commit(f, fails) ==
    /\ etl.pc = "running" /\ worker[f].pc = "commit"
    /\ IF fails
       THEN /\ worker' = [worker EXCEPT ![f].pc = "failed", ![f].fault = "commit", ![f].tx = {}]
            /\ UNCHANGED <<etl_job_status, hourly_sales_by_category>>
       ELSE /\ worker' = [worker EXCEPT ![f].pc = "done", ![f].tx = {}]
            /\ hourly_sales_by_category' =
                    hourly_sales_by_category \cup
                        {Loaded(f, etl.run, row) : row \in worker[f].tx}
            /\ etl_job_status' = UpdateJobStatus(f, "SUCCESS")
    /\ UNCHANGED etl
    /\ UNCHANGED gatewayVars

\* processSingleSalesFile returned an error: the file is marked FAILED.
MarkFailed(f) ==
    /\ etl.pc = "running" /\ worker[f].pc = "failed"
    /\ worker' = [worker EXCEPT ![f].pc = "done"]
    /\ etl_job_status' = UpdateJobStatus(f, "FAILED")
    /\ UNCHANGED <<hourly_sales_by_category, etl>>
    /\ UNCHANGED gatewayVars

\* wg.Wait returns when every goroutine has.
CycleEnd ==
    /\ etl.pc = "running"
    /\ \A f \in Files : worker[f].pc \in {"none", "done"}
    /\ etl' = [etl EXCEPT !.pc = "idle"]
    /\ UNCHANGED <<etl_job_status, hourly_sales_by_category, worker>>
    /\ UNCHANGED gatewayVars

\* The process is killed during a run: its goroutines are gone and the
\* server rolls their open transactions back.
Kill ==
    /\ etl.pc = "running"
    /\ etl' = [etl EXCEPT !.pc = "idle"]
    /\ worker' = [f \in Files |-> NoWorker]
    /\ UNCHANGED <<etl_job_status, hourly_sales_by_category>>
    /\ UNCHANGED gatewayVars

\* Runs of the preprocessor over the three files, with every fault of the
\* status query, the PENDING mark and the transaction.
NextEtl ==
    \/ \E queryFails \in BOOLEAN : ProcessAllSalesFiles(queryFails)
    \/ \E f \in Files, fails \in BOOLEAN : MarkPending(f, fails)
    \/ \E f \in Files, fails \in BOOLEAN : NoValidData(f, fails)
    \/ \E f \in Files, fault \in BeginFaults : Begin(f, fault)
    \/ \E f \in Files, fails \in BOOLEAN : \E row \in Aggregates(f) : Exec(f, row, fails)
    \/ \E f \in Files, fails \in BOOLEAN : StatusInTx(f, fails)
    \/ \E f \in Files, fails \in BOOLEAN : Commit(f, fails)
    \/ \E f \in Files : MarkFailed(f)
    \/ CycleEnd
    \/ Kill

SpecEtl == Init /\ [][NextEtl]_vars

\* ---- claims --------------------------------------------------------------
Terminal == {"COMPLETED", "FAILED", "CANCELLED"}

\* C1: concurrent claim statements never return the same job: every job is
\* returned by at most one claim, two instances never hold the same row, and
\* the row an instance holds is a PENDING job (a different one from the
\* winner's, or none at all).
C1_SingleOwner ==
    /\ \A j \in JobIds : proc[j].claims <= 1
    /\ \A i \in Instances : tick[i] # 0 =>
            /\ tick[i] \in JobIds
            /\ jobs[tick[i]].status = "PENDING"
            /\ \A w \in Instances \ {i} : tick[w] # tick[i]

\* Two instances are inside their claim statements at once, on different jobs.
C1_Witness == tick["i1"] # 0 /\ tick["i2"] # 0

\* C2: a claim and a cancel of the same PENDING job never both succeed: a
\* CANCELLED job was never returned by a claim and has no goroutine, a cancel
\* answered 200 left the job CANCELLED, and a cancel whose UPDATE matched no
\* row of an existing job found it already out of PENDING.
C2_CancelOrClaim ==
    /\ [](\A j \in JobIds :
            jobs[j].status = "CANCELLED" => proc[j].claims = 0 /\ proc[j].pc = "none")
    /\ []((response.op = "cancel" /\ response.code = 200) =>
            /\ jobs[response.job_id].status = "CANCELLED"
            /\ proc[response.job_id].claims = 0)
    /\ [][\A j \in JobIds :
            (cancelling = 0 /\ cancelling' = j) =>
                jobs[j].status \in {"RUNNING", "COMPLETED", "FAILED", "CANCELLED"}]_vars

\* The cancel lost to a claim that held the row: its UPDATE matched nothing
\* and the job is RUNNING, claimed once.
C2_Witness ==
    \E j \in JobIds :
        cancelling = j /\ jobs[j].status = "RUNNING" /\ proc[j].claims = 1

\* C3: a job's status moves only along PENDING->RUNNING, RUNNING->COMPLETED,
\* RUNNING->FAILED and PENDING->CANCELLED, a new job starts PENDING, and a
\* terminal status never changes.
AllowedTransitions ==
    {<<"PENDING", "RUNNING">>, <<"RUNNING", "COMPLETED">>, <<"RUNNING", "FAILED">>,
     <<"PENDING", "CANCELLED">>}

C3_StatusGraph ==
    [][/\ Len(jobs') >= Len(jobs)
       /\ \A j \in 1..Len(jobs') :
            IF j \in JobIds
            THEN \/ jobs'[j].status = jobs[j].status
                 \/ <<jobs[j].status, jobs'[j].status>> \in AllowedTransitions
            ELSE jobs'[j].status = "PENDING"]_vars

\* Every terminal status has been reached and a cancel of a finished job was
\* answered 409.
C3_Witness ==
    /\ response.op = "cancel" /\ response.code = 409
    /\ response.status \in {"COMPLETED", "FAILED"}
    /\ \E j \in JobIds : jobs[j].status = "CANCELLED"

\* The decimal string of a period 1..MaxPeriod, as the client writes it.
PeriodString(n) == <<DigitChars[n + 1]>>

Keys == {"CAT_01", "CAT_02"} \X {"daily"}

\* C4: a valid request for N points of a key with exactly K < N cached points
\* answers nothing before its INSERT and changes no table; the INSERT then
\* adds exactly one job, PENDING, with count N - K and the requested
\* granularity, and the answer is 202 with that job's id and no points.
C4_ShortfallJob ==
    /\ [][\A key \in Keys, n \in 1..MaxPeriod :
            (/\ GetForecast(key[1], key[2], PeriodString(n))
             /\ Cardinality(CacheRows(key[1], key[2])) < n) =>
                /\ reading' = [pc |-> "insert", category_id |-> key[1], horizon |-> key[2],
                               period |-> n,
                               seen |-> Cardinality(CacheRows(key[1], key[2]))]
                /\ response' = NoResponse
                /\ jobs' = jobs /\ live_forecasts' = live_forecasts]_vars
    /\ [][(reading.pc = "insert" /\ reading' # reading) =>
            /\ jobs' = Append(jobs, [category_id |-> reading.category_id,
                                     granularity |-> reading.horizon,
                                     count |-> reading.period - reading.seen,
                                     status |-> "PENDING", error_message |-> ""])
            /\ response' = Response("getForecast", 202, Len(jobs) + 1, <<>>, "", "")
            /\ live_forecasts' = live_forecasts]_vars
    /\ [][Len(jobs') # Len(jobs) => reading.pc = "insert"]_vars

\* One point of CAT_02 is cached and two were asked for: 202, and the job
\* asks for the one missing point.
C4_Witness ==
    /\ response.op = "getForecast" /\ response.code = 202
    /\ response.job_id = Len(jobs)
    /\ jobs[response.job_id].category_id = "CAT_02"
    /\ jobs[response.job_id].count = 1
    /\ Cardinality(CacheRows("CAT_02", "daily")) = 1

\* C5: a valid request for N points of a key with at least N cached points
\* answers 200 with exactly N points, in strictly ascending date order, each a
\* cached point of the key, none of the key's other points dated before any of
\* them; it creates no job and changes neither table.
C5_FullHit ==
    [][\A key \in Keys, n \in 1..MaxPeriod :
            (/\ GetForecast(key[1], key[2], PeriodString(n))
             /\ Cardinality(CacheRows(key[1], key[2])) >= n) =>
                /\ response'.op = "getForecast" /\ response'.code = 200
                /\ response'.job_id = 0
                /\ Len(response'.forecast) = n
                /\ \A k \in 1..n :
                    /\ \E r \in CacheRows(key[1], key[2]) :
                            /\ r.forecast_date = response'.forecast[k].forecast_date
                            /\ r.predicted_sales = response'.forecast[k].predicted_sales
                    /\ k < n => response'.forecast[k].forecast_date
                                    < response'.forecast[k + 1].forecast_date
                    /\ \A r \in CacheRows(key[1], key[2]) :
                            \/ r.forecast_date >= response'.forecast[k].forecast_date
                            \/ \E m \in 1..n :
                                    response'.forecast[m].forecast_date = r.forecast_date
                /\ jobs' = jobs /\ live_forecasts' = live_forecasts
                /\ reading' = reading /\ proc' = proc]_vars

\* Two points of a key are cached and one was asked for: 200 with the earlier.
C5_Witness ==
    /\ response.op = "getForecast" /\ response.code = 200
    /\ Len(response.forecast) = 1
    /\ \E key \in Keys :
        /\ Cardinality(CacheRows(key[1], key[2])) = 2
        /\ \A r \in CacheRows(key[1], key[2]) :
                r.forecast_date >= response.forecast[1].forecast_date
        /\ \E r \in CacheRows(key[1], key[2]) :
                r.forecast_date > response.forecast[1].forecast_date

\* A write of a point of the job's batch returned an error: a row's stmt.Exec,
\* or the closing stmt.Exec of the COPY.
WriteFailed(j) ==
    proc[j].outcome \in {"exec error", "unique violation", "committed, rows dropped"}

\* C6: the merge is all-or-nothing: when a write of a point of the batch
\* failed, the table is as it was before the merge and the job is FAILED, never
\* COMPLETED.
C6_AllOrNothing ==
    \A j \in JobIds :
        WriteFailed(j) =>
            /\ ~proc[j].changed
            /\ jobs[j].status # "COMPLETED"
            /\ proc[j].pc = "done" => jobs[j].status = "FAILED"

\* C7: a COMPLETED job's batch transaction began, committed, and left every
\* point the generator returned in the table.
C7_CompletedMeansCommitted ==
    \A j \in JobIds :
        jobs[j].status = "COMPLETED" =>
            proc[j].outcome = "committed" /\ proc[j].present

\* C8: a merge of convertible points with no database fault leaves, for each
\* point whose triple was already in the table, exactly one row of that
\* triple, carrying the values of the batch's last point for it.
C8_Upsert ==
    [][\A j \in JobIds, batch \in OkBatches :
            Merge(j, batch, "none") =>
                \A k \in 1..Len(batch) :
                    (/\ \E q \in live_forecasts : Triple(q) = Triple(PointRow(j, batch[k]))
                     /\ \A l \in (k + 1)..Len(batch) :
                            Triple(PointRow(j, batch[l])) # Triple(PointRow(j, batch[k]))) =>
                        {q \in live_forecasts' : Triple(q) = Triple(PointRow(j, batch[k]))}
                            = {PointRow(j, batch[k])}]_vars

\* C9: the table never holds two rows of one (category, date, granularity).
C9_UniqueTriple ==
    \A r, q \in live_forecasts : Triple(r) = Triple(q) => r = q

\* Two jobs were given a batch with the same triple: the first committed it,
\* the second merge was attempted and the row is still there once.
C9_Witness ==
    \E j, k \in JobIds :
        /\ proc[j].outcome = "committed" /\ proc[j].changed
        /\ proc[k].outcome = "unique violation"
        /\ Cardinality(CacheRows("CAT_01", "daily")) >= 1

\* C10: a job whose generator call ended in a transport error or a status
\* other than 200 went from RUNNING straight to FAILED with a message, in a
\* step that left the table alone; a FAILED row never changes again, and the
\* status query answers with the row's status and message.
GeneratorErrors == {"transport", "non200"}

C10_GeneratorFailure ==
    /\ [](\A j \in JobIds :
            proc[j].outcome \in GeneratorErrors =>
                jobs[j].status = "FAILED" /\ jobs[j].error_message # "")
    /\ [][\A j \in JobIds :
            (proc[j].outcome = "-" /\ proc'[j].outcome \in GeneratorErrors) =>
                /\ jobs[j].status = "RUNNING" /\ jobs'[j].status = "FAILED"
                /\ live_forecasts' = live_forecasts]_vars
    /\ [][\A j \in JobIds : jobs[j].status = "FAILED" => jobs'[j] = jobs[j]]_vars
    /\ []((response.op = "getJobStatus" /\ response.code = 200) =>
            /\ response.status = jobs[response.job_id].status
            /\ response.error_message = jobs[response.job_id].error_message)

\* The status query of a job whose generator call failed answered FAILED with
\* the message.
C10_Witness ==
    /\ response.op = "getJobStatus" /\ response.code = 200
    /\ proc[response.job_id].outcome \in GeneratorErrors
    /\ response.status = "FAILED" /\ response.error_message # ""

\* C11: the generator is called at most once per job and every job is
\* returned by at most one claim; a FAILED job has no goroutine left, is held
\* by no claim statement, and neither its row nor its goroutine record
\* changes again.
C11_NoRetry ==
    /\ [](\A j \in JobIds :
            /\ proc[j].calls <= 1 /\ proc[j].claims <= 1
            /\ jobs[j].status = "FAILED" =>
                    /\ proc[j].pc = "done"
                    /\ \A i \in Instances : tick[i] # j)
    /\ [][\A j \in JobIds :
            jobs[j].status = "FAILED" => jobs'[j] = jobs[j] /\ proc'[j] = proc[j]]_vars

\* A job failed in its one generator call, and a later tick of a live
\* instance went on to claim the next job instead.
C11_Witness ==
    \E j, k \in JobIds :
        /\ jobs[j].status = "FAILED" /\ proc[j].calls = 1
        /\ j < k /\ jobs[k].status = "RUNNING" /\ proc[k].pc = "post"
\* C12: the cancel handler's UPDATE step answers 200 exactly when the job was
\* PENDING as the UPDATE ran, and then leaves it CANCELLED; the status lookup
\* that follows an UPDATE of no row never answers 200.
C12_CancelSuccess ==
    [][/\ \A id \in JobIds \cup {UnknownJob} :
            Cancel(id) =>
                /\ (response'.op = "cancel" /\ response'.code = 200)
                        <=> (id \in JobIds /\ jobs[id].status = "PENDING")
                /\ (id \in JobIds /\ jobs[id].status = "PENDING") =>
                        /\ jobs'[id].status = "CANCELLED"
                        /\ response'.job_id = id
       /\ (cancelling # 0 /\ response'.op = "cancel") => response'.code # 200]_vars

\* One cancel was answered 200 on a PENDING job while another job, cancelled
\* too late, ran on.
C12_Witness ==
    /\ response.op = "cancel" /\ response.code = 200
    /\ jobs[response.job_id].status = "CANCELLED"
    /\ \E k \in JobIds : jobs[k].status = "RUNNING"
NotPending == {"RUNNING", "COMPLETED", "FAILED", "CANCELLED"}

\* C13: a cancel of an existing job that is not PENDING changes nothing in
\* either of its two statements and answers 409 with the job's status as the
\* lookup reads it; the goroutine of a RUNNING job whose cancel is under way
\* can take its next step all the same.
C13_CancelConflict ==
    /\ [][/\ \A id \in JobIds :
                (jobs[id].status \in NotPending /\ Cancel(id)) =>
                    /\ cancelling' = id /\ response'.op # "cancel"
                    /\ UNCHANGED <<jobs, live_forecasts, proc, tick, alive>>
          /\ (cancelling \in JobIds /\ CancelLookup(FALSE)) =>
                /\ jobs[cancelling].status \in NotPending
                /\ response' = Response("cancel", 409, cancelling, <<>>,
                                        jobs[cancelling].status, "")
                /\ UNCHANGED <<jobs, live_forecasts, proc, tick, alive>>]_vars
    /\ [](\A j \in JobIds :
            (cancelling = j /\ proc[j].owner # NoInstance /\ alive[proc[j].owner]) =>
                /\ proc[j].pc = "post" => ENABLED Merge(j, <<OnePoint>>, "none")
                /\ proc[j].pc = "finalize" => ENABLED Finalize(j))

\* The cancel of a RUNNING job was answered 409 RUNNING after its worker had
\* merged the batch in between the cancel's two statements.
C13_Witness ==
    /\ response.op = "cancel" /\ response.code = 409 /\ response.status = "RUNNING"
    /\ proc[response.job_id].pc = "finalize" /\ proc[response.job_id].changed
\* C14: a cancel answered 409 reports RUNNING, COMPLETED, FAILED or CANCELLED,
\* never PENDING and never an empty status.
C14_ConflictStatus ==
    (response.op = "cancel" /\ response.code = 409) => response.status \in NotPending
\* C15: a cancel of an id that no job has writes nothing in either of its
\* statements and answers 404.
C15_CancelUnknown ==
    [][/\ Cancel(UnknownJob) =>
            /\ cancelling' = UnknownJob /\ response'.op # "cancel"
            /\ UNCHANGED <<jobs, live_forecasts, proc, tick, alive>>
       /\ (cancelling # 0 /\ cancelling \notin JobIds /\ CancelLookup(FALSE)) =>
            /\ response' = Response("cancel", 404, cancelling, <<>>, "", "")
            /\ UNCHANGED <<jobs, live_forecasts, proc, tick, alive>>]_vars

\* The cancel of an unknown id was answered 404 with jobs in the ledger, one
\* of them PENDING.
C15_Witness ==
    /\ response.op = "cancel" /\ response.code = 404
    /\ response.job_id \notin JobIds
    /\ \E j \in JobIds : jobs[j].status = "PENDING"
\* The period strings that are positive integers, and the horizons the API names.
PositivePeriods == {PeriodString(n) : n \in 1..MaxPeriod}

Horizons == {"daily", "monthly", "yearly"}

\* C16: a forecast request whose period is not a positive integer or whose
\* horizon is not daily, monthly or yearly is answered 400 with a response
\* that does not depend on the tables, goes on to no INSERT, and leaves the
\* ledger and the cache as they were.
C16_Validation ==
    [][\A c \in {"CAT_01", "CAT_02"}, h \in {"daily", "hourly"}, ps \in PeriodInputs :
            (GetForecast(c, h, ps) /\ (ps \notin PositivePeriods \/ h \notin Horizons)) =>
                /\ response' \in {Response("getForecast", 400, 0, <<>>, "period", ""),
                                  Response("getForecast", 400, 0, <<>>, "horizon", "")}
                /\ ps \notin PositivePeriods => response'.status = "period"
                /\ UNCHANGED <<jobs, live_forecasts, reading, proc, tick>>]_vars

\* A request with a valid period and an unknown horizon was answered 400 while
\* the ledger held a job and the cache a point of the requested category.
C16_Witness ==
    /\ response.op = "getForecast" /\ response.code = 400 /\ response.status = "horizon"
    /\ jobs # <<>> /\ CacheRows("CAT_01", "daily") # {}
\* C17: a job whose goroutine died with its process before finalizing is
\* RUNNING in every later state: no claim statement holds or returns it, and
\* neither its row nor its goroutine record changes again.
C17_CrashLeavesRunning ==
    /\ [](\A j \in JobIds :
            proc[j].pc = "crashed" =>
                /\ jobs[j].status = "RUNNING" /\ proc[j].claims = 1
                /\ \A i \in Instances : tick[i] # j)
    /\ [][\A j \in JobIds :
            proc[j].pc = "crashed" => jobs'[j] = jobs[j] /\ proc'[j] = proc[j]]_vars

\* After the crash the other instance claimed and completed a later job, and
\* a cancel of the orphaned job was answered 409 RUNNING.
C17_Witness ==
    \E j, k \in JobIds :
        /\ proc[j].pc = "crashed" /\ j < k /\ jobs[k].status = "COMPLETED"
        /\ response.op = "cancel" /\ response.code = 409
        /\ response.job_id = j /\ response.status = "RUNNING"
\* C18: a job whose generator call never gets an answer is failed after a
\* bounded wait: from the blocked call the job always comes to FAILED.
C18_GeneratorTimeout ==
    \A j \in 1..MaxJobs :
        (j \in JobIds /\ proc[j].pc = "waiting") ~> (j \in JobIds /\ jobs[j].status = "FAILED")
\* C19: one claim statement sets at most one job RUNNING: no step moves two
\* jobs from PENDING to RUNNING, and the UPDATE of a claim changes the row it
\* holds and no other.
C19_OnePerTick ==
    [][/\ Cardinality({j \in JobIds :
                jobs[j].status = "PENDING" /\ jobs'[j].status = "RUNNING"}) <= 1
       /\ \A i \in Instances :
            ClaimUpdate(i) =>
                /\ {j \in JobIds : jobs'[j] # jobs[j]} = {tick[i]}
                /\ {j \in JobIds : proc'[j] # proc[j]} = {tick[i]}]_vars

\* A tick found two PENDING jobs, claimed the first and left the second.
C19_Witness ==
    \E j, k \in JobIds :
        /\ j < k /\ proc[j].pc = "post" /\ proc[j].claims = 1
        /\ jobs[k].status = "PENDING"
        /\ \A i \in Instances : tick[i] = 0
NonePending == \A j \in JobIds : jobs[j].status # "PENDING"

\* C20: a claim statement run while no job is PENDING returns no row: it
\* changes no job, holds no row afterwards, starts no goroutine (so calls no
\* generator) and leaves the cache alone.
C20_IdleTick ==
    [][\A i \in Instances :
            (NonePending /\ ClaimSelect(i)) =>
                /\ tick'[i] = 0
                /\ UNCHANGED <<jobs, live_forecasts, proc, tick, alive, reading, cancelling>>]_vars

\* A live runner ticks over a ledger that holds jobs, none of them PENDING:
\* one with its generator call in flight, one finished.
C20_Witness ==
    /\ NonePending /\ response = NoResponse
    /\ \E i \in Instances : alive[i] /\ tick[i] = 0 /\ ENABLED ClaimSelect(i)
    /\ \E j, k \in JobIds :
            /\ jobs[j].status = "RUNNING" /\ proc[j].pc = "post"
            /\ jobs[k].status \in Terminal
\* C21: a tick whose claim statement failed processes no job and leaves the
\* job it was about PENDING; a RUNNING job always has the goroutine its claim
\* started (instances do not crash here).
C21_FailedClaim ==
    /\ [](\A j \in JobIds :
            jobs[j].status = "RUNNING" =>
                proc[j].pc \in {"post", "finalize"} /\ proc[j].claims = 1)
    /\ [][\A i \in Instances :
            (tick[i] # 0 /\ tick'[i] = 0 /\ proc'[tick[i]].claims = proc[tick[i]].claims) =>
                /\ jobs'[tick[i]].status = "PENDING"
                /\ proc' = proc]_vars
\* C22: the handler's INSERT does not look at the ledger: whatever jobs exist
\* for the key, the INSERT can run, and the step that ends a shortfall request
\* appends one new PENDING job for the key, answers 202 with the new id and
\* leaves every other job as it was.
C22_NoDedup ==
    /\ []((reading.pc = "insert" /\ Len(jobs) < MaxJobs) => ENABLED InsertJob)
    /\ [][(reading.pc = "insert" /\ reading' = NotReading) =>
            /\ Len(jobs') = Len(jobs) + 1
            /\ \A j \in JobIds : jobs'[j] = jobs[j]
            /\ jobs'[Len(jobs')].status = "PENDING"
            /\ jobs'[Len(jobs')].category_id = reading.category_id
            /\ jobs'[Len(jobs')].granularity = reading.horizon
            /\ response'.code = 202 /\ response'.job_id = Len(jobs')]_vars

\* A second request for the key was answered 202 with a job of its own while
\* the first job for the key was PENDING or RUNNING.
C22_Witness ==
    \E j, k \in JobIds :
        /\ j < k /\ response.op = "getForecast" /\ response.code = 202 /\ response.job_id = k
        /\ jobs[j].category_id = jobs[k].category_id
        /\ jobs[j].granularity = jobs[k].granularity
        /\ jobs[j].status \in {"PENDING", "RUNNING"} /\ jobs[k].status = "PENDING"
\* C23: the status query of an existing job answers 200 with the row's status
\* and error message (a message for a FAILED job, none otherwise), the query
\* of an id without a job answers 404, and neither writes anything.
C23_JobStatus ==
    [][\A id \in 1..MaxJobs :
            GetJobStatus(id) =>
                /\ UNCHANGED <<jobs, live_forecasts, proc, tick, alive, reading, cancelling>>
                /\ id \in JobIds =>
                        /\ response' = Response("getJobStatus", 200, id, <<>>,
                                                jobs[id].status, jobs[id].error_message)
                        /\ (jobs[id].status = "FAILED") <=> (response'.error_message # "")
                /\ id \notin JobIds =>
                        response'.code = 404 /\ response'.status = ""]_vars

\* The query of a job whose COPY was rolled back answered FAILED with the
\* bulk-insert message.
C23_Witness ==
    /\ response.op = "getJobStatus" /\ response.code = 200
    /\ response.status = "FAILED"
    /\ response.error_message = "Failed to bulk insert delta forecast"
    /\ jobs[response.job_id].status = "FAILED"
\* The value the client asked for: the parameter's integer, 20 when absent.
RequestedLimit(q) == Atoi(DefaultQuery(q)).val

\* C24: for every limit parameter the job list answers 200 with at most
\* min(limit, 100) jobs, and these are the most recently created jobs of the
\* ledger, newest first.
C24_ListJobs ==
    [][\A q \in LimitInputs :
            ListJobs(q) =>
                /\ response'.code = 200
                /\ Len(response'.jobs) <= RequestedLimit(q)
                /\ Len(response'.jobs) <= 100
                /\ \A k \in 1..Len(response'.jobs) :
                        /\ response'.jobs[k].job_id = Len(jobs) + 1 - k
                        /\ response'.jobs[k].status = jobs[Len(jobs) + 1 - k].status]_vars
Triples(S) == {Triple(r) : r \in S}

\* C25: no step removes a point from the cache: every triple in the table
\* before a step is in the table after it, with the row it had.
C25_CacheGrows ==
    [][/\ Triples(live_forecasts) \subseteq Triples(live_forecasts')
       /\ live_forecasts \subseteq live_forecasts']_vars

\* Merges have added points beside the one the cache started with, and a
\* merge was rolled back on a duplicate.
C25_Witness ==
    /\ Cardinality(Triples(live_forecasts)) >= 3
    /\ Row("CAT_02", 1, "daily", "v1") \in live_forecasts
    /\ \E j \in JobIds : proc[j].outcome = "unique violation"
\* A batch that names no date twice.
DistinctDates(batch) ==
    \A k, l \in 1..Len(batch) : k # l => batch[k].forecast_date # batch[l].forecast_date

\* C26: a merge of convertible points with no database fault succeeds
\* whatever other jobs of the key have already written: the job goes on to
\* COMPLETED, with its points in the table, and is not FAILED over a date
\* another job's merge has stored.
C26_OverlapCompletes ==
    [][\A j \in JobIds, batch \in OkBatches :
            (DistinctDates(batch) /\ Merge(j, batch, "none")) =>
                /\ jobs'[j].status # "FAILED"
                /\ proc'[j].pc = "finalize"
                /\ \A k \in 1..Len(batch) :
                        PointRow(j, batch[k]).forecast_date
                            \in {r.forecast_date : r \in CacheRows(jobs[j].category_id,
                                                                   jobs[j].granularity)}']_vars
\* C27: the handler counts the points of its key as its own SELECT finds
\* them, and the INSERT that follows, whatever has been merged in between,
\* runs and appends a job whose count is the period minus that number.
C27_ReadThenInsert ==
    /\ [][(reading.pc = "idle" /\ reading'.pc = "insert") =>
            /\ reading'.seen = Cardinality(CacheRows(reading'.category_id, reading'.horizon))
            /\ reading'.seen < reading'.period]_vars
    /\ [][(reading.pc = "insert" /\ reading' = NotReading) =>
            /\ Len(jobs') = Len(jobs) + 1
            /\ jobs'[Len(jobs')].count = reading.period - reading.seen
            /\ response'.code = 202]_vars
    /\ [](reading.pc = "insert" =>
            (Len(jobs) < MaxJobs => ENABLED InsertJob)
            /\ reading.period - reading.seen >= 1)

\* A job was created, with the count of the handler's earlier read, while the
\* cache already held as many points of its key as any request asks for.
C27_Witness ==
    \E k \in JobIds :
        /\ response.op = "getForecast" /\ response.code = 202 /\ response.job_id = k
        /\ jobs[k].status = "PENDING" /\ jobs[k].count >= 1
        /\ Cardinality(CacheRows(jobs[k].category_id, jobs[k].granularity)) >= MaxPeriod
\* The jobs whose goroutine an instance is running.
Owned(i) == {j \in JobIds : proc[j].owner = i /\ jobs[j].status = "RUNNING"}

\* C28: a tick does not wait for the jobs its instance has started: whenever
\* a live instance is between claim statements and a job can be claimed, its
\* next claim statement can take that job, whatever the instance is running;
\* and the claim's UPDATE leaves the goroutines already running alone.
C28_AsyncHandOff ==
    /\ [](\A i \in Instances :
            (alive[i] /\ tick[i] = 0 /\ \E j \in JobIds : Claimable(j)) =>
                ENABLED (ClaimSelect(i) /\ tick'[i] # 0))
    /\ [][\A i \in Instances :
            (tick[i] # 0 /\ proc'[tick[i]].claims # proc[tick[i]].claims) =>
                /\ Owned(i) \subseteq Owned(i)'
                /\ Owned(i)' = Owned(i) \cup {tick[i]}]_vars

\* One instance runs the goroutines of two RUNNING jobs at once.
C28_Witness ==
    \E i \in Instances : \E j, k \in Owned(i) :
        j # k /\ proc[j].pc \in {"post", "finalize"} /\ proc[k].pc = "post"
\* C29: a job whose generator answered 200 with a body that does not decode,
\* or with a point that lacks a field, is FAILED with a message and has
\* changed nothing in the cache; it is not left RUNNING.
C29_BadBody ==
    \A j \in JobIds :
        proc[j].outcome \in {"undecodable", "panic"} =>
            /\ jobs[j].status = "FAILED" /\ jobs[j].error_message # ""
            /\ ~proc[j].changed
\* C30: for a CANCELLED job no goroutine was ever started: the generator was
\* not called for it, no transaction of its changed the cache, no claim
\* statement holds its row, and no step starts anything for it later.
C30_CancelledNeverRuns ==
    /\ [](\A j \in JobIds :
            jobs[j].status = "CANCELLED" =>
                /\ proc[j].calls = 0 /\ ~proc[j].changed /\ proc[j].outcome = "-"
                /\ \A i \in Instances : tick[i] # j)
    /\ [][\A j \in JobIds :
            jobs[j].status = "CANCELLED" => proc'[j] = proc[j] /\ jobs'[j] = jobs[j]]_vars

\* One job was cancelled, and the runner went past it to a later job, which
\* was merged and completed.
C30_Witness ==
    \E j, k \in JobIds :
        /\ j < k /\ jobs[j].status = "CANCELLED"
        /\ jobs[k].status = "COMPLETED" /\ proc[k].changed
\* C31: with claim statements that run and do not fail, every PENDING job
\* comes to leave PENDING, claimed or cancelled, whatever jobs are created
\* after it.
C31_PendingLeaves ==
    \A j \in 1..MaxJobs :
        (j \in JobIds /\ jobs[j].status = "PENDING")
            ~> (j \in JobIds /\ jobs[j].status \in {"RUNNING", "CANCELLED"} \cup Terminal)

\* Both ways out of PENDING have been taken, and the earlier job did not wait
\* for the later one.
C31_Witness ==
    \E j, k \in JobIds :
        /\ j < k /\ proc[j].claims = 1 /\ jobs[k].status = "CANCELLED"
        /\ \A i \in Instances : alive[i]

\* C32: with a worker that stays up, a generator call that returns and
\* ledger updates that succeed, every RUNNING job comes to COMPLETED or FAILED.
C32_RunningEnds ==
    \A j \in 1..MaxJobs :
        (j \in JobIds /\ jobs[j].status = "RUNNING")
            ~> (j \in JobIds /\ jobs[j].status \in {"COMPLETED", "FAILED"})

\* Jobs have ended both ways: one COMPLETED after its commit, one FAILED on a
\* rolled-back COPY.
C32_Witness ==
    \E j, k \in JobIds :
        /\ jobs[j].status = "COMPLETED" /\ proc[j].outcome = "committed"
        /\ jobs[k].status = "FAILED" /\ proc[k].outcome \in {"exec error", "unique violation"}
\* C33: a claim statement locks the earliest-created job that is PENDING and
\* not locked by another claim: every job created before the one it takes is
\* out of PENDING (claimed, cancelled) or locked; a job turns RUNNING only as
\* the row a claim statement holds; and a claim that runs with no other claim
\* under way takes a job before which none is PENDING.
C33_ClaimOrder ==
    /\ [][\A i \in Instances :
            (tick[i] = 0 /\ tick'[i] # 0) =>
                /\ jobs[tick'[i]].status = "PENDING" /\ ~RowLocked(tick'[i])
                /\ \A j \in JobIds :
                        j < tick'[i] => (jobs[j].status # "PENDING" \/ RowLocked(j))]_vars
    /\ [][\A k \in JobIds :
            (jobs[k].status = "PENDING" /\ jobs'[k].status = "RUNNING") =>
                \E i \in Instances : tick[i] = k /\ tick'[i] = 0]_vars
    /\ [][\A i \in Instances :
            (tick[i] = 0 /\ tick'[i] # 0 /\ \A w \in Instances : tick[w] = 0) =>
                \A j \in JobIds : j < tick'[i] => jobs[j].status \in NotPending]_vars

\* A claim passed over the first job, which had been cancelled, and holds the
\* second.
C33_Witness ==
    \E i \in Instances :
        /\ tick[i] = 2 /\ jobs[2].status = "PENDING"
        /\ jobs[1].status = "CANCELLED"
\* C34: the cache changes only in the batch transaction of one job that is
\* RUNNING as it commits; every other step leaves the table as it was.
C34_OnlyMergeWrites ==
    [][live_forecasts' # live_forecasts =>
            \E j \in JobIds :
                /\ jobs[j].status = "RUNNING" /\ jobs'[j].status = "RUNNING"
                /\ proc[j].pc = "post" /\ proc'[j].pc = "finalize" /\ proc'[j].changed
                /\ \A k \in JobIds \ {j} : proc'[k] = proc[k]]_vars

\* A merge has written the cache, and the job list was then answered: every
\* kind of handler has run beside the write.
C34_Witness ==
    /\ response.op = "listJobs" /\ response.code = 200 /\ Len(response.jobs) = 2
    /\ \E j \in JobIds : proc[j].changed /\ jobs[j].status = "COMPLETED"
    /\ \E k \in JobIds : jobs[k].status = "CANCELLED"
\* C35: a job has an error message exactly when it is FAILED, and the step
\* that makes a job FAILED is the one that writes the message.
C35_MessageIffFailed ==
    /\ [](\A j \in JobIds : (jobs[j].error_message # "") <=> (jobs[j].status = "FAILED"))
    /\ [][\A j \in JobIds :
            jobs'[j].error_message # jobs[j].error_message =>
                /\ jobs[j].status = "RUNNING" /\ jobs'[j].status = "FAILED"
                /\ jobs[j].error_message = ""]_vars

\* Jobs in three statuses side by side: one FAILED on an undecodable body
\* with its message, one COMPLETED or RUNNING without.
C35_Witness ==
    \E j, k \in JobIds :
        /\ jobs[j].status = "FAILED" /\ proc[j].outcome = "undecodable"
        /\ jobs[j].error_message = "Failed to decode delta forecast response"
        /\ jobs[k].status \in {"COMPLETED", "RUNNING"} /\ jobs[k].error_message = ""
\* C36: every job of the ledger asks for at least one point and for a
\* granularity the API names; the job a request appends asks for no more
\* points than the request's period.
C36_CountRange ==
    /\ [](\A j \in JobIds :
            /\ jobs[j].count >= 1 /\ jobs[j].count <= MaxPeriod
            /\ jobs[j].granularity \in Horizons)
    /\ [][(reading.pc = "insert" /\ Len(jobs') = Len(jobs) + 1) =>
            /\ jobs'[Len(jobs')].count >= 1
            /\ jobs'[Len(jobs')].count <= reading.period
            /\ jobs'[Len(jobs')].granularity = reading.horizon]_vars

\* The ledger holds a job for the whole period of its request and one for a
\* part of it, the rest having been in the cache; the generator has been
\* called for one of them.
C36_Witness ==
    \E j, k \in JobIds :
        /\ jobs[j].count = MaxPeriod /\ jobs[k].count < MaxPeriod
        /\ jobs[k].category_id = "CAT_02"
        /\ proc[j].calls = 1
\* The dates the cache holds for a job's key.
CachedDates(j) ==
    {r.forecast_date : r \in CacheRows(jobs[j].category_id, jobs[j].granularity)}

\* C37: when a job's merge stores as many points as the job asked for, on
\* dates its key did not have, the key then holds N points for every period N
\* whose shortfall the job covered; the points of a key never get fewer; and
\* a request for a key that holds N points is answered 200 with N points and
\* leaves the ledger alone.
C37_HitAfterCompletion ==
    /\ [][\A j \in JobIds, batch \in OkBatches, n \in 1..MaxPeriod :
            (/\ Merge(j, batch, "none")
             /\ Len(batch) = jobs[j].count /\ DistinctDates(batch)
             /\ \A k \in 1..Len(batch) : batch[k].forecast_date \notin CachedDates(j)
             /\ Cardinality(CachedDates(j)) >= n - jobs[j].count) =>
                /\ proc'[j].pc = "finalize" /\ proc'[j].outcome = "committed"
                /\ Len(QueryForecasts(jobs[j].category_id, jobs[j].granularity, n))' = n]_vars
    /\ [][\A key \in Keys :
            Cardinality(CacheRows(key[1], key[2])) <= Cardinality(CacheRows(key[1], key[2]))']_vars
    /\ [][\A key \in Keys, n \in 1..MaxPeriod :
            (/\ Cardinality(CacheRows(key[1], key[2])) >= n
             /\ GetForecast(key[1], key[2], PeriodString(n))) =>
                /\ response'.code = 200 /\ Len(response'.forecast) = n
                /\ jobs' = jobs /\ reading' = reading]_vars

\* A job for the whole of period 2 completed after merging two new dates, and
\* the same request was then answered 200 with two points.
C37_Witness ==
    \E j \in JobIds :
        /\ jobs[j].status = "COMPLETED" /\ jobs[j].count = MaxPeriod
        /\ jobs[j].category_id = "CAT_01" /\ proc[j].present /\ proc[j].changed
        /\ response.op = "getForecast" /\ response.code = 200
        /\ Len(response.forecast) = MaxPeriod
        /\ \A k \in 1..Len(response.forecast) :
                Row("CAT_01", response.forecast[k].forecast_date, "daily",
                    response.forecast[k].predicted_sales) \in live_forecasts
\* The rows of a file the table holds, and the runs that loaded them.
FileRows(f) == {r.row : r \in {x \in hourly_sales_by_category : x.file = f}}

LoadsOf(f) == {r.run : r \in {x \in hourly_sales_by_category : x.file = f}}

C39_SkipSuccess ==
    /\ [][etl'.run # etl.run =>
            \A f \in Files :
                /\ etl_job_status[f] = "SUCCESS" =>
                        f \notin etl'.filesToProcess /\ worker'[f].pc = "none"
                /\ (etl_job_status[f] \in {"none", "PENDING", "FAILED"} /\ ~etl'.err) =>
                        f \in etl'.filesToProcess /\ worker'[f].pc = "start"]_vars
    /\ [](\A f \in Files :
            /\ etl.jobStatuses[f] = "SUCCESS" =>
                    /\ worker[f].pc = "none"
                    /\ etl.run \notin LoadsOf(f)
                    /\ etl_job_status[f] = "SUCCESS"
            /\ Cardinality(LoadsOf(f)) <= 1
            /\ Cardinality(FileRows(f)) = Cardinality({x \in hourly_sales_by_category : x.file = f}))

\* The second run found f2 SUCCESS, f1 FAILED and f3 PENDING: it left f2
\* alone and loaded f1.
C39_Witness ==
    /\ etl.run = 2
    /\ etl.jobStatuses = [f \in Files |->
            IF f = "f2" THEN "SUCCESS" ELSE IF f = "f1" THEN "FAILED" ELSE "PENDING"]
    /\ etl.filesToProcess = {"f1", "f3"}
    /\ worker["f2"].pc = "none" /\ LoadsOf("f2") = {1}
    /\ worker["f1"].pc = "done" /\ LoadsOf("f1") = {2}
    /\ etl_job_status["f1"] = "SUCCESS"
====
